---- MODULE Spec2Model ----
(***************************************************************************)
(* A model of argh::parser (src/argh.h): the command-line classifier       *)
(* (parser::parse) and the accessor layer over its collections.            *)
(*                                                                         *)
(* A string is a sequence of one-character strings, so "--a" is            *)
(* <<"-", "-", "a">>.  The loop index i is 1-based here (0-based in the    *)
(* source), so "i == args_.size() - 1" reads i = Len(args_).               *)
(***************************************************************************)
EXTENDS Integers, Sequences, FiniteSets, Bags, TLC

VARIABLES
    args_,              \* std::vector<std::wstring>: the tokens of the latest parse
    params_,            \* std::multimap: sequence of <<key, value>> in insertion order
    pos_args_,          \* std::vector<std::wstring>: positional arguments
    flags_,             \* std::multiset<std::wstring>: a bag of names
    registeredParams_,  \* std::set<std::wstring>
    pc,                 \* "idle" | "parse" (inside the for loop) | "abort" (assert failed)
    i,                  \* the loop variable of parse (1-based), 0 outside parse
    mode,               \* the mode argument of the running parse, 0 outside parse
    skipped,            \* indices of args_ the running/latest parse stepped over with ++i
    before,             \* the collections as they were when the latest parse was entered
    spent,              \* tokens handed to parse so far (an empty vector counts one)
    ret                 \* the latest accessor call and what it returned

vars == <<args_, params_, pos_args_, flags_, registeredParams_, pc, i, mode,
          skipped, before, spent, ret>>

colls == <<params_, pos_args_, flags_, registeredParams_>>

-----------------------------------------------------------------------------
(* Bounds of the model *)

\* longest argument vector handed to parse under Spec
MaxArgs == 3
\* longest argument vector handed to parse under SpecQuery
QueryMaxArgs == 2
\* tokens handed to one parser, over all its parse calls, under SpecReparse
ReBudget == 3

-----------------------------------------------------------------------------
(* enum Mode *)

PREFER_FLAG_FOR_UNREG_OPTION == 1
PREFER_PARAM_FOR_UNREG_OPTION == 2
NO_SPLIT_ON_EQUALSIGN == 4
SINGLE_DASH_IS_MULTIFLAG == 8

\* mode & bit, for a single-bit mask
HasBit(m, bit) == (m \div bit) % 2 = 1

\* every value of the four-bit mask
Modes == 0..15

-----------------------------------------------------------------------------
(* Strings *)

Digits == <<"0", "1", "2", "3", "4", "5", "6", "7", "8", "9">>

IsDigit(c) == \E d \in 1..Len(Digits) : Digits[d] = c

SetMin(S) == CHOOSE x \in S : \A y \in S : x <= y

\* std::wstring::find_first_not_of(c): 1-based position, 0 for npos
find_first_not_of(s, c) ==
    LET idx == {k \in 1..Len(s) : s[k] # c}
    IN  IF idx = {} THEN 0 ELSE SetMin(idx)

SetMax(S) == CHOOSE x \in S : \A y \in S : x >= y

\* mutant of find: the last occurrence (rfind)
find_last(s, c) ==
    LET idx == {k \in 1..Len(s) : s[k] = c}
    IN  IF idx = {} THEN 0 ELSE SetMax(idx)

\* std::wstring::find(c): 1-based position, 0 for npos
find(s, c) ==
    LET idx == {k \in 1..Len(s) : s[k] = c}
    IN  IF idx = {} THEN 0 ELSE SetMin(idx)

\* the number of characters of s from position p on that satisfy digit-ness
RECURSIVE DigitRun(_, _)
DigitRun(s, p) ==
    IF p <= Len(s) /\ IsDigit(s[p]) THEN 1 + DigitRun(s, p + 1) ELSE 0

trim_leading_dashes(name) ==
    LET pos == find_first_not_of(name, "-")
    IN  IF pos # 0 THEN SubSeq(name, pos, Len(name)) ELSE name

(***************************************************************************)
(* "istr >> number" into a double.  The extraction skips leading blanks,   *)
(* reads an optional sign, digits, an optional '.', digits, and an         *)
(* optional exponent, and stops at the first character that cannot         *)
(* continue the number; what follows is left in the stream and does not    *)
(* fail it.  It fails when no digit was read, or when an exponent letter   *)
(* was read with no exponent digit after it.  number_end is the position   *)
(* after the last character extracted, 0 when the extraction failed.       *)
(***************************************************************************)

\* the position after the leading blanks from the start of arg
skip_ws(arg) ==
    LET ws == find_first_not_of(arg, " ")
    IN  IF ws = 0 THEN Len(arg) + 1 ELSE ws

\* the position after an optional sign at p
skip_sign(arg, p) ==
    IF p <= Len(arg) /\ arg[p] \in {"-", "+"} THEN p + 1 ELSE p

\* the position after the digits from p on
skip_digits(arg, p) == p + DigitRun(arg, p)

\* the position after an optional '.' at p and the digits after it
skip_fraction(arg, p) ==
    IF p <= Len(arg) /\ arg[p] = "." THEN skip_digits(arg, p + 1) ELSE p

\* the exponent's digits from q on: at least one is needed
exponent_digits(arg, q) ==
    IF DigitRun(arg, q) = 0 THEN 0 ELSE skip_digits(arg, q)

\* the position after an optional exponent at p, 0 when it has no digit
skip_exponent(arg, p) ==
    IF p <= Len(arg) /\ arg[p] \in {"e", "E"}
    THEN exponent_digits(arg, skip_sign(arg, p + 1))
    ELSE p

\* the mantissa lies in p1..(p4 - 1): it needs a digit
mantissa_end(arg, p1, p4) ==
    IF \A k \in p1..(p4 - 1) : ~IsDigit(arg[k]) THEN 0
    ELSE skip_exponent(arg, p4)

mantissa(arg, p1) ==
    mantissa_end(arg, p1, skip_fraction(arg, skip_digits(arg, p1)))

number_end(arg) == mantissa(arg, skip_sign(arg, skip_ws(arg)))

\* return !(istr.fail() || istr.bad())
is_number(arg) == number_end(arg) # 0

is_option(arg) ==
    IF is_number(arg) THEN FALSE ELSE arg[1] = "-"

\* mutant of is_param: the registered names are never consulted
is_param_never(name) == FALSE

is_param(name) == name \in registeredParams_

got_flag(name) == BagIn(trim_leading_dashes(name), flags_)

\* mutant of emplace_back: the new positional goes to the front
emplace_front(v, x) == <<x>> \o v

\* pos_args_.emplace_back(x)
emplace_back(v, x) == Append(v, x)

\* flags_.emplace(name)
emplace(fl, name) == fl (+) SetToBag({name})

\* for (auto const& c : name) flags_.emplace(std::wstring{ c });
RECURSIVE emplace_chars(_, _)
emplace_chars(fl, name) ==
    IF name = <<>> THEN fl
    ELSE emplace_chars(emplace(fl, <<Head(name)>>), Tail(name))

-----------------------------------------------------------------------------
(* parser::parse *)

\* the condition of the multi-flag if, for token tok with stripped name nm
multiflag(tok, nm, m) ==
    /\ Len(tok) - Len(nm) = 1
    /\ HasBit(m, SINGLE_DASH_IS_MULTIFLAG)
    /\ ~is_param(nm)

\* mutant of keep_param: a registered last character is not peeled off
keep_param_none(nm) == <<>>

\* keep_param after "if (!name.empty() && is_param(std::wstring(1ul, name.back())))"
keep_param(nm) ==
    IF nm # <<>> /\ is_param(<<nm[Len(nm)]>>) THEN <<nm[Len(nm)]>> ELSE <<>>

\* mutant of no_value: only the end of input is checked, not the next token
no_value_last_only(args, k) == k = Len(args)

\* i == args_.size() - 1 || is_option(args_[i + 1])
no_value(args, k) == IF k = Len(args) THEN TRUE ELSE is_option(args[k + 1])

\* mutant of exclusive: the assert is compiled out
exclusive_always(m) == TRUE

\* the operand of the assert: the two preferences are not both set
exclusive(m) ==
    ~(HasBit(m, PREFER_FLAG_FOR_UNREG_OPTION)
        /\ HasBit(m, PREFER_PARAM_FOR_UNREG_OPTION))

preferParam(m) == HasBit(m, PREFER_PARAM_FOR_UNREG_OPTION)

(***************************************************************************)
(* One iteration of the for loop, as a function of the loop's state        *)
(* st = [params, pos, flags, i, pc, skipped], the tokens and the mode.     *)
(* The result also names the branch that was taken.                        *)
(***************************************************************************)
loop_body(st, args, m) ==
    LET tok   == args[st.i]
        nm0   == trim_leading_dashes(tok)
        eqPos == find(nm0, "=")
        multi == multiflag(tok, nm0, m)
        keep  == keep_param(nm0)
        fl    == IF multi
                 THEN emplace_chars(st.flags,
                        IF keep # <<>> THEN SubSeq(nm0, 1, Len(nm0) - 1) ELSE nm0)
                 ELSE st.flags
        nm    == IF multi /\ keep # <<>> THEN keep ELSE nm0
        to(b, k) == [st EXCEPT !.i = st.i + k] @@ [branch |-> b]
    IN  IF ~is_option(tok)
        THEN [to("positional", 1) EXCEPT !.pos = emplace_back(st.pos, tok)]
        ELSE IF ~HasBit(m, NO_SPLIT_ON_EQUALSIGN) /\ eqPos # 0
        THEN [to("equals", 1) EXCEPT
                !.params = Append(st.params,
                                  <<SubSeq(nm0, 1, eqPos - 1),
                                    SubSeq(nm0, eqPos + 1, Len(nm0))>>)]
        ELSE IF multi /\ keep = <<>>
        THEN [to("multiflag", 1) EXCEPT !.flags = fl]
        ELSE IF no_value(args, st.i)
        THEN [to("novalue", 1) EXCEPT !.flags = emplace(fl, nm)]
        ELSE IF ~exclusive(m)
        THEN [to("assert", 0) EXCEPT !.flags = fl, !.pc = "abort"]
        ELSE IF is_param(nm) \/ preferParam(m)
        THEN [to("param", 2) EXCEPT
                !.params = Append(st.params, <<nm, args[st.i + 1]>>),
                !.flags = fl,
                !.skipped = st.skipped \cup {st.i + 1}]
        ELSE [to("flag", 1) EXCEPT !.flags = emplace(fl, nm)]

\* the for loop from st to its end (or to the failed assert)
RECURSIVE run(_, _, _)
run(st, args, m) ==
    IF st.pc = "parse" /\ st.i <= Len(args)
    THEN LET n == loop_body(st, args, m)
         IN  run([f \in DOMAIN st |-> n[f]], args, m)
    ELSE st

\* the loop's state in the running parse
Cur == [params |-> params_, pos |-> pos_args_, flags |-> flags_, i |-> i,
        pc |-> pc, skipped |-> skipped]

\* the iteration about to run, evaluated
Body == loop_body(Cur, args_, mode)

\* i < args_.size(): the loop is about to run its body
InLoop == pc = "parse" /\ i <= Len(args_)

\* the iteration takes branch b: the body's assignments
Taken(n, b) ==
    /\ n.branch = b
    /\ params_' = n.params
    /\ pos_args_' = n.pos
    /\ flags_' = n.flags
    /\ i' = n.i
    /\ pc' = n.pc
    /\ skipped' = n.skipped
    /\ UNCHANGED <<args_, registeredParams_, mode, before, spent, ret>>

\* if (!is_option(args_[i])) { pos_args_.emplace_back(args_[i]); continue; }
StepPositional ==
    /\ InLoop
    /\ LET n == Body IN Taken(n, "positional")

\* params_.insert({ name.substr(0, equalPos), name.substr(equalPos + 1) }); continue;
StepEquals ==
    /\ InLoop
    /\ LET n == Body IN Taken(n, "equals")

\* the multi-flag block with nothing kept: a flag per character, continue
StepMultiFlag ==
    /\ InLoop
    /\ LET n == Body IN Taken(n, "multiflag")

\* last token, or the next one is an option: flags_.emplace(name); continue;
StepNoValue ==
    /\ InLoop
    /\ LET n == Body IN Taken(n, "novalue")

\* the assert on the two preference bits fails: the program aborts
StepAssert ==
    /\ InLoop
    /\ LET n == Body IN Taken(n, "assert")

\* params_.insert({ name, args_[i + 1] }); ++i; continue;
StepParam ==
    /\ InLoop
    /\ LET n == Body IN Taken(n, "param")

\* else { flags_.emplace(name); }
StepFlag ==
    /\ InLoop
    /\ LET n == Body IN Taken(n, "flag")

\* i < args_.size() is false: parse returns, its locals are gone
ParseReturn ==
    /\ pc = "parse"
    /\ i > Len(args_)
    /\ pc' = "idle"
    /\ i' = 0
    /\ mode' = 0
    /\ UNCHANGED <<args_, params_, pos_args_, flags_, registeredParams_,
                   skipped, before, spent, ret>>

NoDef == [kind |-> "none", s |-> <<>>, n |-> 0]

NoRet == [op |-> "none", ind |-> 0, names |-> <<>>, def |-> NoDef,
          ok |-> FALSE, str |-> <<>>]

\* what a call of parse with argv costs of the exploration's token budget
Cost(argv) == IF argv = <<>> THEN 1 ELSE Len(argv)

\* mutant of ParseCall: the call clears the collections before the loop
ParseCall_clearing(argv, m) ==
    /\ pc = "idle"
    /\ args_' = argv
    /\ mode' = m
    /\ i' = 1
    /\ pc' = "parse"
    /\ skipped' = {}
    /\ before' = [pos |-> pos_args_, flags |-> flags_, params |-> params_,
                  reg |-> registeredParams_]
    /\ spent' = spent + Cost(argv)
    /\ ret' = NoRet
    /\ pos_args_' = <<>>
    /\ flags_' = EmptyBag
    /\ params_' = <<>>
    /\ UNCHANGED registeredParams_

\* parse(argc, argv, mode): args_.resize(argc); std::transform(...); enter the loop
ParseCall(argv, m) ==
    /\ pc = "idle"
    /\ args_' = argv
    /\ mode' = m
    /\ i' = 1
    /\ pc' = "parse"
    /\ skipped' = {}
    /\ before' = [pos |-> pos_args_, flags |-> flags_, params |-> params_,
                  reg |-> registeredParams_]
    /\ spent' = spent + Cost(argv)
    /\ ret' = NoRet
    /\ UNCHANGED colls

\* add_param(name)
add_param(nm) ==
    /\ pc = "idle"
    /\ registeredParams_' = registeredParams_ \cup {trim_leading_dashes(nm)}
    /\ ret' = NoRet
    /\ UNCHANGED <<args_, params_, pos_args_, flags_, pc, i, mode, skipped,
                   before, spent>>

-----------------------------------------------------------------------------
(* Accessors *)

\* ostr << def_val for a non-negative integer: its decimal digits
RECURSIVE nat_text(_)
nat_text(n) ==
    IF n < 10 THEN <<Digits[n + 1]>>
    ELSE Append(nat_text(n \div 10), Digits[(n % 10) + 1])

\* mutant of to_text: the sign of a negative default is lost
to_text_unsigned(def) ==
    IF def.kind = "str" THEN def.s
    ELSE IF def.n < 0 THEN nat_text(-def.n)
    ELSE nat_text(def.n)

\* ostr << def_val; ostr.str(): a string is written as it is, an int in decimal
to_text(def) ==
    IF def.kind = "str" THEN def.s
    ELSE IF def.n < 0 THEN <<"-">> \o nat_text(-def.n)
    ELSE nat_text(def.n)

\* bad_stream(): an empty stream with failbit set
bad_stream == [ok |-> FALSE, str |-> <<>>]

\* TString_Stream(text): a stream in a good state holding text
stream(text) == [ok |-> TRUE, str |-> text]

\* std::wstring empty_
empty_ == <<>>

\* the elements params_.find(key) may point to: find returns an element with
\* that key and leaves open which, when the key has several
found(key) == {k \in 1..Len(params_) : params_[k][1] = key}

\* mutant of first_found: the last name whose find succeeds
RECURSIVE last_found(_, _)
last_found(names, k) ==
    IF k > Len(names) THEN 0
    ELSE LET later == last_found(names, k + 1)
         IN  IF later # 0 THEN later
             ELSE IF found(trim_leading_dashes(names[k])) # {} THEN k
             ELSE 0

\* for (auto& name : init_list): the first name whose find succeeds, 0 if none
RECURSIVE first_found(_, _)
first_found(names, k) ==
    IF k > Len(names) THEN 0
    ELSE IF found(trim_leading_dashes(names[k])) # {} THEN k
    ELSE first_found(names, k + 1)

\* the call just made and what it returned; the rest of the parser is untouched
Returns(op, ind, names, def, r) ==
    /\ pc = "idle"
    /\ ret' = [op |-> op, ind |-> ind, names |-> names, def |-> def,
               ok |-> r.ok, str |-> r.str]
    /\ UNCHANGED <<args_, params_, pos_args_, flags_, registeredParams_, pc, i,
                   mode, skipped, before, spent>>

\* bool operator[](name)
flag_get(nm) ==
    Returns("flag_get", 0, <<nm>>, NoDef, [ok |-> got_flag(nm), str |-> <<>>])

\* bool operator[](init_list): std::any_of
flag_any(names) ==
    Returns("flag_any", 0, names, NoDef,
            [ok |-> \E k \in 1..Len(names) : got_flag(names[k]), str |-> <<>>])

\* TString const& operator[](size_t ind)
pos_at(ind) ==
    Returns("pos_at", ind, <<>>, NoDef,
            [ok |-> TRUE,
             str |-> IF ind < Len(pos_args_) THEN pos_args_[ind + 1] ELSE empty_])

\* operator()(size_t ind)
pos_stream(ind) ==
    Returns("pos_stream", ind, <<>>, NoDef,
            IF Len(pos_args_) <= ind THEN bad_stream ELSE stream(pos_args_[ind + 1]))

\* operator()(size_t ind, def_val)
pos_stream_def(ind, def) ==
    Returns("pos_stream_def", ind, <<>>, def,
            IF Len(pos_args_) <= ind THEN stream(to_text(def))
            ELSE stream(pos_args_[ind + 1]))

\* operator()(name)
param_get(nm) ==
    LET hit == found(trim_leading_dashes(nm))
    IN  IF hit # {}
        THEN \E e \in hit :
                Returns("param_get", 0, <<nm>>, NoDef, stream(params_[e][2]))
        ELSE Returns("param_get", 0, <<nm>>, NoDef, bad_stream)

\* operator()(init_list)
param_list(names) ==
    LET k == first_found(names, 1)
    IN  IF k # 0
        THEN \E e \in found(trim_leading_dashes(names[k])) :
                Returns("param_list", 0, names, NoDef, stream(params_[e][2]))
        ELSE Returns("param_list", 0, names, NoDef, bad_stream)

\* operator()(name, def_val)
param_get_def(nm, def) ==
    LET hit == found(trim_leading_dashes(nm))
    IN  IF hit # {}
        THEN \E e \in hit :
                Returns("param_get_def", 0, <<nm>>, def, stream(params_[e][2]))
        ELSE Returns("param_get_def", 0, <<nm>>, def, stream(to_text(def)))

\* operator()(init_list, def_val)
param_list_def(names, def) ==
    LET k == first_found(names, 1)
    IN  IF k # 0
        THEN \E e \in found(trim_leading_dashes(names[k])) :
                Returns("param_list_def", 0, names, def, stream(params_[e][2]))
        ELSE Returns("param_list_def", 0, names, def, stream(to_text(def)))

-----------------------------------------------------------------------------
(* Inputs *)

RECURSIVE SeqsUpTo(_, _)
SeqsUpTo(S, n) ==
    IF n = 0 THEN {<<>>}
    ELSE LET shorter == SeqsUpTo(S, n - 1)
         IN  shorter \cup {Append(s, x) : s \in shorter, x \in S}

Tokens ==
    { <<"x">>,
      <<"-", "1">>,
      <<"-", "1", "a">>,
      <<"-">>,
      <<"-", "a">>,
      <<"-", "-", "a">>,
      <<"-", "b", "a">>,
      <<"-", "a", "=", "x", "=">> }

RegInputs == { <<"a">>, <<"-", "-", "a">> }

Init ==
    /\ args_ = <<>>
    /\ params_ = <<>>
    /\ pos_args_ = <<>>
    /\ flags_ = EmptyBag
    /\ registeredParams_ = {}
    /\ pc = "idle"
    /\ i = 0
    /\ mode = 0
    /\ skipped = {}
    /\ before = [pos |-> <<>>, flags |-> EmptyBag, params |-> <<>>, reg |-> {}]
    /\ spent = 0
    /\ ret = NoRet

Register == \E nm \in RegInputs : add_param(nm)

Argvs == SeqsUpTo(Tokens, MaxArgs)

\* the one parse call of a behaviour of Spec
Parse ==
    /\ spent = 0
    /\ \E argv \in Argvs, m \in Modes : ParseCall(argv, m)

Next ==
    \/ Register
    \/ Parse
    \/ StepPositional
    \/ StepEquals
    \/ StepMultiFlag
    \/ StepNoValue
    \/ StepAssert
    \/ StepParam
    \/ StepFlag
    \/ ParseReturn

Spec == Init /\ [][Next]_vars

-----------------------------------------------------------------------------
(* Parse once, then query *)

QueryTokens ==
    { <<"x">>,
      <<"y">>,
      <<"-", "a">>,
      <<"-", "-", "a", "=", "x">>,
      <<"-", "-", "b", "=", "1">> }

QueryArgvs == SeqsUpTo(QueryTokens, QueryMaxArgs)

QueryNames == { <<"a">>, <<"-", "-", "b">>, <<"z">> }

QueryLists ==
    { <<>>,
      << <<"a">> >>,
      << <<"z">> >>,
      << <<"a">>, <<"-", "-", "b">> >>,
      << <<"-", "-", "b">>, <<"a">> >>,
      << <<"z">>, <<"-", "-", "b">> >>,
      << <<"z">>, <<"z">> >> }

Defaults ==
    { [kind |-> "str", s |-> <<"d">>, n |-> 0],
      [kind |-> "int", s |-> <<>>, n |-> 42],
      [kind |-> "int", s |-> <<>>, n |-> -7] }

\* the one parse call of a behaviour of SpecQuery
ParseQuery ==
    /\ spent = 0
    /\ \E argv \in QueryArgvs, m \in Modes : ParseCall(argv, m)

\* a behaviour of SpecQuery makes one accessor call after each change of the parser
Fresh == ret.op = "none"

FlagGet == Fresh /\ \E nm \in QueryNames : flag_get(nm)

FlagAny == Fresh /\ \E names \in QueryLists : flag_any(names)

PosAt == Fresh /\ \E ind \in 0..QueryMaxArgs : pos_at(ind)

PosStream == Fresh /\ \E ind \in 0..QueryMaxArgs : pos_stream(ind)

PosStreamDef ==
    Fresh /\ \E ind \in 0..QueryMaxArgs, def \in Defaults : pos_stream_def(ind, def)

ParamGet == Fresh /\ \E nm \in QueryNames : param_get(nm)

ParamList == Fresh /\ \E names \in QueryLists : param_list(names)

ParamGetDef == Fresh /\ \E nm \in QueryNames, def \in Defaults : param_get_def(nm, def)

ParamListDef ==
    Fresh /\ \E names \in QueryLists, def \in Defaults : param_list_def(names, def)

NextQuery ==
    \/ Register
    \/ ParseQuery
    \/ StepPositional
    \/ StepEquals
    \/ StepMultiFlag
    \/ StepNoValue
    \/ StepAssert
    \/ StepParam
    \/ StepFlag
    \/ ParseReturn
    \/ FlagGet
    \/ FlagAny
    \/ PosAt
    \/ PosStream
    \/ PosStreamDef
    \/ ParamGet
    \/ ParamList
    \/ ParamGetDef
    \/ ParamListDef

SpecQuery == Init /\ [][NextQuery]_vars

-----------------------------------------------------------------------------
(* Parse again on the same parser *)

ReTokens ==
    { <<"x">>,
      <<"-", "a">>,
      <<"-", "-", "b", "=", "1">> }

ReArgvs == SeqsUpTo(ReTokens, ReBudget)

\* a parse call of a behaviour of SpecReparse, within the token budget
ParseAgain ==
    \E argv \in ReArgvs, m \in Modes :
        /\ spent + Cost(argv) <= ReBudget
        /\ ParseCall(argv, m)

NextReparse ==
    \/ Register
    \/ ParseAgain
    \/ StepPositional
    \/ StepEquals
    \/ StepMultiFlag
    \/ StepNoValue
    \/ StepAssert
    \/ StepParam
    \/ StepFlag
    \/ ParseReturn

SpecReparse == Init /\ [][NextReparse]_vars

-----------------------------------------------------------------------------
(* Vocabulary of the properties *)

DashLed(tok) == tok # <<>> /\ tok[1] = "-"

RECURSIVE DropDashes(_)
DropDashes(s) == IF s # <<>> /\ Head(s) = "-" THEN DropDashes(Tail(s)) ELSE s

\* the number of leading dashes of a token
Dashes(tok) == Len(tok) - Len(DropDashes(tok))

\* a token's name: the token without its leading dashes (a token made of
\* dashes only is its own name)
NameOf(tok) == IF DropDashes(tok) = <<>> THEN tok ELSE DropDashes(tok)

HasEq(s) == \E k \in 1..Len(s) : s[k] = "="

\* the position of the first '=' of s
FirstEq(s) == CHOOSE k \in 1..Len(s) : s[k] = "=" /\ \A j \in 1..(k - 1) : s[j] # "="

\* a bag with one copy of each character of s per occurrence
RECURSIVE CharBag(_)
CharBag(s) ==
    IF s = <<>> THEN EmptyBag ELSE SetToBag({<<Head(s)>>}) (+) CharBag(Tail(s))

\* the elements of s at the indices in K, from index k on, in order
RECURSIVE PickFrom(_, _, _)
PickFrom(s, K, k) ==
    IF k > Len(s) THEN <<>>
    ELSE (IF k \in K THEN <<s[k]>> ELSE <<>>) \o PickFrom(s, K, k + 1)

\* s is t with some elements left out
RECURSIVE IsSubseq(_, _)
IsSubseq(s, t) ==
    IF s = <<>> THEN TRUE
    ELSE IF t = <<>> THEN FALSE
    ELSE IF Head(s) = Head(t) THEN IsSubseq(Tail(s), Tail(t))
    ELSE IsSubseq(s, Tail(t))

\* the whole token is a signed floating-point number
WellFormedNumber(tok) == number_end(tok) = Len(tok) + 1

BothPreferences(m) ==
    HasBit(m, PREFER_FLAG_FOR_UNREG_OPTION) /\ HasBit(m, PREFER_PARAM_FOR_UNREG_OPTION)

\* the scan is at a token / at an option token
AtToken == pc = "parse" /\ i >= 1 /\ i <= Len(args_)
AtOption == AtToken /\ is_option(args_[i])

\* the scanned token is the last one or the next token is an option
NothingFollows == IF i = Len(args_) THEN TRUE ELSE is_option(args_[i + 1])
ValueFollows == ~NothingFollows

Registered(nm) == nm \in registeredParams_

\* the equals-sign split applies to the scanned token
SplitApplies ==
    ~HasBit(mode, NO_SPLIT_ON_EQUALSIGN) /\ HasEq(NameOf(args_[i]))

\* the multi-flag decomposition applies to the scanned token
MultiApplies ==
    /\ HasBit(mode, SINGLE_DASH_IS_MULTIFLAG)
    /\ Dashes(args_[i]) = 1
    /\ Len(args_[i]) >= 2
    /\ ~Registered(NameOf(args_[i]))

LastChar(nm) == <<nm[Len(nm)]>>
Front(nm) == SubSeq(nm, 1, Len(nm) - 1)

\* what one step does to the collections
AddsParam(key, val, base) ==
    /\ params_' = Append(params_, <<key, val>>)
    /\ flags_' = base
    /\ pos_args_' = pos_args_
    /\ pc' = "parse"

AddsFlag(nm, base) ==
    /\ flags_' = base (+) SetToBag({nm})
    /\ params_' = params_
    /\ pos_args_' = pos_args_
    /\ pc' = "parse"

Aborts(base) ==
    /\ pc' = "abort"
    /\ flags_' = base
    /\ params_' = params_
    /\ pos_args_' = pos_args_

\* name nm is a parameter taking the next token, which the scan skips
Consumes(nm, base) == AddsParam(nm, args_[i + 1], base) /\ i' = i + 2

\* name nm is a flag and the scan moves to the next token
FlagOnly(nm, base) == AddsFlag(nm, base) /\ i' = i + 1

\* the flag/parameter lookahead rules for name nm, flags_ standing at base
Lookahead(nm, base) ==
    IF NothingFollows THEN FlagOnly(nm, base)
    ELSE IF BothPreferences(mode) THEN Aborts(base)
    ELSE IF Registered(nm) \/ HasBit(mode, PREFER_PARAM_FOR_UNREG_OPTION)
    THEN Consumes(nm, base)
    ELSE FlagOnly(nm, base)

\* the multi-flag decomposition of name nm
Decomposes(nm) ==
    IF Registered(LastChar(nm))
    THEN Lookahead(LastChar(nm), flags_ (+) CharBag(Front(nm)))
    ELSE /\ flags_' = flags_ (+) CharBag(nm)
         /\ params_' = params_
         /\ pos_args_' = pos_args_
         /\ pc' = "parse"
         /\ i' = i + 1

\* the equals-sign split of name nm
Splits(nm) ==
    /\ AddsParam(SubSeq(nm, 1, FirstEq(nm) - 1),
                 SubSeq(nm, FirstEq(nm) + 1, Len(nm)), flags_)
    /\ i' = i + 1

\* a parse call has returned
Parsed == pc = "idle" /\ spent > 0

A == <<"a">>
X == <<"x">>
Y == <<"y">>
DashA == <<"-", "a">>
DashDashA == <<"-", "-", "a">>
DashBA == <<"-", "b", "a">>
EqToken == <<"-", "a", "=", "x", "=">>

-----------------------------------------------------------------------------
(* C1 *)

\* C1 as stated: an option token that is the last token, or whose next token
\* is an option, is recorded as a flag and never as a parameter, and no
\* token is consumed as its value, whatever the mode and the registered names.
C1_AsStated ==
    [][(AtOption /\ NothingFollows)
        => (params_' = params_ /\ flags_' # flags_ /\ pos_args_' = pos_args_
            /\ i' = i + 1)]_vars

\* C1, amended: an option token that is the last token, or whose next token
\* is an option, and that the equals-sign split does not apply to, adds no
\* parameter and consumes no token: it adds its name as a flag, or, where the
\* multi-flag decomposition applies, one flag per character of its name.
\* Where the split applies the token is recorded as the parameter key -> value
\* even as the last token.
C1_FlagWhenNoValue ==
    [][(AtOption /\ NothingFollows)
        => IF SplitApplies THEN Splits(NameOf(args_[i]))
           ELSE /\ params_' = params_
                /\ pos_args_' = pos_args_
                /\ pc' = "parse"
                /\ i' = i + 1
                /\ flags_' = flags_ (+)
                      (IF MultiApplies THEN CharBag(NameOf(args_[i]))
                       ELSE SetToBag({NameOf(args_[i])}))]_vars

\* "--a --a" with a registered has been parsed: two flags a, no parameter
C1_Witness ==
    /\ Parsed
    /\ args_ = <<DashDashA, DashDashA>>
    /\ before.reg = {A}
    /\ CopiesIn(A, flags_) = 2
    /\ params_ = <<>>

-----------------------------------------------------------------------------
(* C3 *)

\* C3 as stated: every option token that is not last and whose next token is
\* a non-option takes that token as its value when its name is registered or
\* PREFER_PARAM_FOR_UNREG_OPTION is set, and is a flag otherwise.
C3_AsStated ==
    [][(AtOption /\ ValueFollows)
        => IF Registered(NameOf(args_[i]))
              \/ HasBit(mode, PREFER_PARAM_FOR_UNREG_OPTION)
           THEN Consumes(NameOf(args_[i]), flags_)
           ELSE FlagOnly(NameOf(args_[i]), flags_)]_vars

\* C3, amended: the value consumption policy holds for an option token that
\* is not last, whose next token is a non-option, that is neither split at
\* '=' nor decomposed as a multi-flag group, under a mode that does not set
\* both preferences: name -> next token is recorded and the next token is
\* skipped when the name is registered or PREFER_PARAM_FOR_UNREG_OPTION is
\* set; otherwise the name is a flag and the scan moves to the next token.
\* A non-option token the scan reaches becomes a positional.
C3_ValueConsumption ==
    [][/\ (AtOption /\ ValueFollows /\ ~SplitApplies /\ ~MultiApplies
            /\ ~BothPreferences(mode))
          => IF Registered(NameOf(args_[i]))
                \/ HasBit(mode, PREFER_PARAM_FOR_UNREG_OPTION)
             THEN Consumes(NameOf(args_[i]), flags_)
             ELSE FlagOnly(NameOf(args_[i]), flags_)
       /\ (AtToken /\ ~is_option(args_[i]))
          => /\ pos_args_' = Append(pos_args_, args_[i])
             /\ i' = i + 1
             /\ params_' = params_
             /\ flags_' = flags_]_vars

\* "--a x" with a registered, default mode: a -> x, no flag, no positional
C3_Witness ==
    /\ Parsed
    /\ args_ = <<DashDashA, X>>
    /\ before.reg = {A}
    /\ params_ = << <<A, X>> >>
    /\ flags_ = EmptyBag
    /\ pos_args_ = <<>>
    /\ skipped = {2}

-----------------------------------------------------------------------------
(* C4 *)

\* C4 as stated: an option token whose name contains '=' is split into one
\* parameter unless NO_SPLIT_ON_EQUALSIGN is set; with it set, the whole name
\* goes through the flag/parameter lookahead rules.
C4_AsStated ==
    [][(AtOption /\ HasEq(NameOf(args_[i])))
        => IF ~HasBit(mode, NO_SPLIT_ON_EQUALSIGN)
           THEN Splits(NameOf(args_[i]))
           ELSE Lookahead(NameOf(args_[i]), flags_)]_vars

\* C4, amended: as stated, except that with NO_SPLIT_ON_EQUALSIGN set a token
\* the multi-flag decomposition applies to is decomposed, '=' included, and
\* only the other tokens go through the lookahead rules with the whole text
\* as the name.
C4_EqualsSplit ==
    [][(AtOption /\ HasEq(NameOf(args_[i])))
        => IF ~HasBit(mode, NO_SPLIT_ON_EQUALSIGN)
           THEN Splits(NameOf(args_[i]))
           ELSE IF MultiApplies THEN Decomposes(NameOf(args_[i]))
           ELSE Lookahead(NameOf(args_[i]), flags_)]_vars

\* "-a=x= x": the parameter a -> "x=", and x is a positional
C4_Witness ==
    /\ Parsed
    /\ args_ = <<EqToken, X>>
    /\ params_ = << <<A, <<"x", "=">> >> >>
    /\ flags_ = EmptyBag
    /\ pos_args_ = <<X>>

-----------------------------------------------------------------------------
(* C5 *)

\* C5 as stated: with SINGLE_DASH_IS_MULTIFLAG set, a token with exactly one
\* leading dash whose name is not registered adds a flag per character and
\* consumes nothing, except that a registered last character is peeled off:
\* a parameter taking the next token when that is a non-option, a flag when
\* there is none.
C5_AsStated ==
    [][(AtOption /\ HasBit(mode, SINGLE_DASH_IS_MULTIFLAG) /\ Dashes(args_[i]) = 1
            /\ ~Registered(NameOf(args_[i])))
        => LET nm == NameOf(args_[i])
           IN  IF Registered(LastChar(nm))
               THEN IF ValueFollows
                    THEN Consumes(LastChar(nm), flags_ (+) CharBag(Front(nm)))
                    ELSE FlagOnly(LastChar(nm), flags_ (+) CharBag(Front(nm)))
               ELSE /\ flags_' = flags_ (+) CharBag(nm)
                    /\ params_' = params_
                    /\ pos_args_' = pos_args_
                    /\ i' = i + 1]_vars

\* C5, amended: the decomposition applies to a token of one dash and at least
\* one more character, whose name is not registered and is not split at '='
\* (the split comes first; a bare "-" is an ordinary option named "-").  A
\* peeled registered last character with a non-option next token is a
\* parameter taking it, unless both preferences are set: then the
\* mode-exclusivity assertion fails, after the flags of the other characters
\* were added.
C5_MultiFlag ==
    [][(AtOption /\ MultiApplies /\ ~SplitApplies)
        => Decomposes(NameOf(args_[i]))]_vars

\* "-ba x" with a registered under SINGLE_DASH_IS_MULTIFLAG: flag b, a -> x
C5_Witness ==
    /\ Parsed
    /\ args_ = <<DashBA, X>>
    /\ before.reg = {A}
    /\ flags_ = SetToBag({<<"b">>})
    /\ params_ = << <<A, X>> >>
    /\ pos_args_ = <<>>

-----------------------------------------------------------------------------
(* C6 *)

\* C6: a dash-led token becomes a positional exactly when the whole of it is
\* a signed floating-point number; every other dash-led token ("-1a", "-")
\* is handled as an option.
C6_NumberSniffing ==
    [][(AtToken /\ DashLed(args_[i]))
        => ((pos_args_' = Append(pos_args_, args_[i]))
                <=> WellFormedNumber(args_[i]))]_vars

-----------------------------------------------------------------------------
(* C9 *)

\* C9 as stated: a parse called with both preferences set never returns, and
\* the assertion fails only with both set.
C9_AsStated ==
    [][/\ (pc = "parse" /\ pc' = "idle") => ~BothPreferences(mode)
       /\ (pc' = "abort") => BothPreferences(mode)]_vars

\* the scanned token gets as far as the assert
ReachesAssert ==
    /\ AtOption
    /\ ValueFollows
    /\ ~SplitApplies
    /\ MultiApplies => Registered(LastChar(NameOf(args_[i])))

\* C9, amended: the mode-exclusivity assertion fails exactly when, with both
\* preferences set, the scan reaches an option token that is not last, whose
\* next token is a non-option, that is not split at '=' and not wholly
\* decomposed into flags; a parse that meets no such token returns normally
\* even with both set.  With at most one preference set it never fails.
C9_Assertion ==
    [][/\ (pc = "parse" /\ pc' = "abort")
          => (BothPreferences(mode) /\ ReachesAssert)
       /\ (AtToken /\ BothPreferences(mode) /\ ReachesAssert)
          => pc' = "abort"
       /\ (AtToken /\ ~(BothPreferences(mode) /\ ReachesAssert))
          => pc' = "parse"]_vars

\* "--a x" with both preferences set: the assertion has failed
C9_Witness ==
    /\ pc = "abort"
    /\ args_ = <<DashDashA, X>>
    /\ BothPreferences(mode)
    /\ i = 1

-----------------------------------------------------------------------------
(* C2 *)

NonDash(args) == {k \in 1..Len(args) : ~DashLed(args[k])}

\* C2 as stated: after parse every input token that does not begin with a
\* dash is among the positional arguments, in the input's relative order.
C2_AsStated ==
    Parsed => IsSubseq(PickFrom(args_, NonDash(args_), 1), pos_args_)

\* C2, amended: after parse the positional arguments added by it are, in
\* input order, exactly the tokens that are not options (no leading dash, or
\* a number) and that the scan did not skip as the value of the option before
\* them; so every token without a leading dash that was not consumed as a
\* value is a positional, in its original relative order.  A skipped token
\* is a non-option that follows an option and is the value of a parameter.
C2_OrderPreserved ==
    Parsed =>
        /\ pos_args_ = before.pos \o
              PickFrom(args_, {k \in 1..Len(args_) :
                                  k \notin skipped /\ (~DashLed(args_[k])
                                                       \/ is_number(args_[k]))}, 1)
        /\ IsSubseq(PickFrom(args_, NonDash(args_) \ skipped, 1), pos_args_)
        /\ \A k \in skipped :
              /\ k > 1
              /\ k <= Len(args_)
              /\ DashLed(args_[k - 1])
              /\ ~is_option(args_[k])
              /\ \E e \in 1..Len(params_) : params_[e][2] = args_[k]

\* "y x" has been parsed: the positionals are y, x
C2_Witness ==
    /\ Parsed
    /\ args_ = <<Y, X>>
    /\ pos_args_ = <<Y, X>>

-----------------------------------------------------------------------------
(* C7, C8 *)

\* the text of a default value
DefaultText(def) ==
    CASE def.kind = "str" -> def.s
      [] def.kind = "int" /\ def.n = 42 -> <<"4", "2">>
      [] def.kind = "int" /\ def.n = -7 -> <<"-", "7">>

\* name nm, dashes stripped, is a key of the parameter map
Present(nm) == \E e \in 1..Len(params_) : params_[e][1] = NameOf(nm)

\* str is a value stored under name nm
StoredUnder(nm, str) ==
    \E e \in 1..Len(params_) : params_[e] = <<NameOf(nm), str>>

\* C7: the alternative-names lookup returns the value of the first name of
\* the list, in list order and dashes stripped, that is a key of the
\* parameter map; when none is, the default's text in a good stream, or a
\* failed stream when no default was given.
C7_FirstNameWins ==
    ret.op \in {"param_list", "param_list_def"} =>
        LET hits == {k \in 1..Len(ret.names) : Present(ret.names[k])}
        IN  IF hits # {}
            THEN ret.ok /\ StoredUnder(ret.names[SetMin(hits)], ret.str)
            ELSE IF ret.op = "param_list"
            THEN ~ret.ok /\ ret.str = <<>>
            ELSE ret.ok /\ ret.str = DefaultText(ret.def)

\* both a and b are parameters and the list {"--b", "a"} returned b's value
C7_Witness ==
    /\ ret.op = "param_list"
    /\ ret.names = << <<"-", "-", "b">>, A >>
    /\ Present(A)
    /\ Present(<<"b">>)
    /\ ret.ok
    /\ ret.str = <<"1">>
    /\ ~StoredUnder(A, <<"1">>)

\* what the positional-by-index and parameter-by-name accessors return
LookupResult ==
    /\ ret.op = "pos_at" =>
          ret.str = IF ret.ind >= Len(pos_args_) THEN <<>>
                    ELSE pos_args_[ret.ind + 1]
    /\ ret.op = "pos_stream" =>
          IF ret.ind >= Len(pos_args_) THEN ~ret.ok /\ ret.str = <<>>
          ELSE ret.ok /\ ret.str = pos_args_[ret.ind + 1]
    /\ ret.op = "pos_stream_def" =>
          /\ ret.ok
          /\ ret.str = IF ret.ind >= Len(pos_args_) THEN DefaultText(ret.def)
                       ELSE pos_args_[ret.ind + 1]
    /\ ret.op = "param_get" =>
          IF Present(ret.names[1]) THEN ret.ok /\ StoredUnder(ret.names[1], ret.str)
          ELSE ~ret.ok /\ ret.str = <<>>
    /\ ret.op = "param_get_def" =>
          /\ ret.ok
          /\ IF Present(ret.names[1]) THEN StoredUnder(ret.names[1], ret.str)
             ELSE ret.str = DefaultText(ret.def)

\* C8: a lookup miss is a result, not a failure: an index past the
\* positionals or an absent name gives the empty string or a failed stream
\* without a default and a good stream holding the default's text with one;
\* a present index or name gives the stored value, default or not.  No
\* accessor call changes positionals, flags, parameters or registered names.
C8_LookupMiss ==
    [][ret'.op # "none"
        => (LookupResult' /\ UNCHANGED <<params_, pos_args_, flags_,
                                         registeredParams_, args_>>)]_vars

\* the absent name z was looked up with the default 42, which came back as "42"
C8_Witness ==
    /\ Parsed
    /\ ret.op = "param_get_def"
    /\ ret.names = << <<"z">> >>
    /\ ret.def.kind = "int"
    /\ ret.def.n = 42
    /\ ret.ok
    /\ ret.str = <<"4", "2">>

-----------------------------------------------------------------------------
(* C10 *)

\* parse of args under mode m on a parser holding only the registered names
Alone(args, m) ==
    run([params |-> <<>>, pos |-> <<>>, flags |-> EmptyBag, i |-> 1,
         pc |-> "parse", skipped |-> {}], args, m)

\* C10: a parse that returns leaves the positionals it found on the tokens
\* alone after the positionals that were there, the flags and the parameters
\* it found added to those that were there, and the registered names as they
\* were; so parse(A) then parse(B) leaves A's results followed by B's.
C10_Accumulates ==
    [][(pc = "parse" /\ pc' = "idle")
        => LET alone == Alone(args_, mode)
           IN  /\ pos_args_' = before.pos \o alone.pos
               /\ flags_' = before.flags (+) alone.flags
               /\ params_' = before.params \o alone.params
               /\ registeredParams_' = before.reg]_vars

\* after "-a x" then "x": the first x is still the first positional, the
\* flag a is still there
C10_Witness ==
    /\ Parsed
    /\ before.pos = <<X>>
    /\ BagIn(A, before.flags)
    /\ args_ = <<X>>
    /\ pos_args_ = <<X, X>>
    /\ BagIn(A, flags_)

====
